---- MODULE Spec2Model ----
(***************************************************************************)
(* Model of plugins/modules/instance.py: the reconciliation of one virtual *)
(* machine instance against the CloudStack control plane.                  *)
(*                                                                         *)
(* One behaviour is one invocation of main(): Init draws the module        *)
(* parameters and the control plane's live instance, and each action is    *)
(* one handler of AnsibleCloudStackInstance called by main().  A handler   *)
(* is an operator on the record `s` of everything an invocation can read   *)
(* or write:                                                               *)
(*   s.p        module.params and module.check_mode                        *)
(*   s.vm       the control plane's instance (wire shape) or NoVm          *)
(*   s.pending  the state the instance's job in flight ends in, or NoJob   *)
(*   s.vol      size of the instance's ROOT volume, in MiB                 *)
(*   s.cache    self.instance                                              *)
(*   s.ret      the value the handler returns                              *)
(*   s.changed  self.result["changed"]                                     *)
(*   s.calls    the mutating control-plane calls issued so far             *)
(*   s.warns    module.warn messages                                       *)
(*   s.err      the fail_json message or exception, NoErr while running    *)
(*   s.unpolled whether a job this invocation started has not been polled  *)
(*   s.raced    for each call of s.calls, s.unpolled when it was issued    *)
(*   s.stale    whether a mutating call was issued since s.cache was set   *)
(*   s.ret_stale  whether s.ret is a snapshot that was stale when read     *)
(*   s.read_stale whether s.cache has been read while stale                *)
(*   s.rejects  the API call the control plane answers with an error, None *)
(*              when it accepts every call                                 *)
(*   s.flagged  for each call of s.calls, s.changed when it was issued     *)
(*   s.memo     self.template or self.iso, NoVm until one is resolved      *)
(*   s.raw      whether self.instance was ever set to a snapshot whose     *)
(*              keypairs is not a list                                     *)
(*   s.queries  the listTemplates and listIsos queries issued so far       *)
(* pc is main()'s position and vm0 the live instance the invocation found. *)
(* out is the value of the method a unit specification applies.            *)
(* A handler applied to a failed record leaves it alone: fail_json and an  *)
(* uncaught exception end the invocation.                                  *)
(***************************************************************************)
EXTENDS Integers, Sequences, FiniteSets, TLC

VARIABLES params, vm, pending, vol, self_instance, instance, changed,
          calls, warns, err, pc, vm0, unpolled, raced, stale, ret_stale, read_stale,
          rejects, flagged, memo, queries, raw, out

vars == <<params, vm, pending, vol, self_instance, instance, changed,
          calls, warns, err, pc, vm0, unpolled, raced, stale, ret_stale, read_stale,
          rejects, flagged, memo, queries, raw, out>>

---------------------------------------------------------------------------
(* Values *)

None == "None"
NoErr == ""
NoJob == ""
NoVm == [kind |-> "none"]
NoSize == -1
Unset == [given |-> FALSE]
Given(v) == [given |-> TRUE, v |-> v]

\* str.lower() on the strings of the model
Lower(x) ==
    CASE x = "Starting" -> "starting"
      [] x = "Running" -> "running"
      [] x = "Stopping" -> "stopping"
      [] x = "Stopped" -> "stopped"
      [] x = "Destroying" -> "destroying"
      [] x = "Destroyed" -> "destroyed"
      [] x = "Expunging" -> "expunging"
      [] x = "Error" -> "error"
      [] x = "Web" -> "web"
      [] x = "DB" -> "db"
      [] OTHER -> x

\* base64.b64encode on the user data of the model
Base64(x) ==
    CASE x = "ud" -> "dWQ="
      [] x = None -> None

\* get_or_fallback: the parameter `key`, or `fallback` when it is not given
get_or_fallback(p, key, fallback) == IF p[key] # None THEN p[key] ELSE p[fallback]

WireStates == {"Starting", "Running", "Stopping", "Stopped",
               "Destroying", "Destroyed", "Expunging", "Error"}

\* the state a job already in flight at the start of the invocation ends in
InFlight(st) ==
    CASE st = "Starting" -> "Running"
      [] st = "Stopping" -> "Stopped"
      [] st = "Destroying" -> "Destroyed"
      [] st = "Expunging" -> "Gone"
      [] OTHER -> NoJob

States == {"present", "deployed", "started", "stopped", "restarted", "restored",
           "absent", "destroyed", "expunged"}

---------------------------------------------------------------------------
(* The control plane: listings and the effect of each API call *)

\* listServiceOfferings, listHosts, listTemplates, listIsos, listNetworks,
\* listUserData, listSSHKeyPairs; template and ISO sizes in MiB
ServiceOfferings == <<[name |-> "small", id |-> "so1"],
                      [name |-> "large", id |-> "so2"]>>
Hosts == <<[name |-> "h1", id |-> "hid1"], [name |-> "h2", id |-> "hid2"]>>
Templates == <<[name |-> "tmpl", displaytext |-> "Base image", id |-> "tid1", size |-> 10240],
               [name |-> "big", displaytext |-> None, id |-> "tid2", size |-> 25600],
               [name |-> "big", displaytext |-> "Big image", id |-> "tid3", size |-> 20480]>>
Isos == <<[name |-> "iso1", displaytext |-> "Installer", id |-> "iid1", size |-> 30720],
          [name |-> "iso1", displaytext |-> "Installer", id |-> "iid2", size |-> 10240]>>
Networks == <<[name |-> "net1", displaytext |-> "Net one", id |-> "nid1"],
              [name |-> "net2", displaytext |-> "Net two", id |-> "nid2"],
              [name |-> "net1", displaytext |-> "Net two", id |-> "nid3"]>>
UserData == <<[name |-> "udn1", id |-> "udid1"]>>
SshKeyPairs == <<[name |-> "k1", fingerprint |-> "fp1"],
                 [name |-> "k2", fingerprint |-> "fp2"],
                 [name |-> "k1b", fingerprint |-> "fp1"]>>

\* size of a fresh ROOT volume when no root_disk_size is asked for, in GiB
DefaultRootGiB == 20
MiBPerGiB == 1024

WireKeys(ks) ==
    IF ks = <<>> THEN [shape |-> "missing"] ELSE [shape |-> "list", v |-> ks]

VmState(s) == IF s.vm.kind = "vm" THEN s.vm.state ELSE None

Failed(s) == s.err # NoErr
Fail(s, msg) == IF Failed(s) THEN s ELSE [s EXCEPT !.err = msg]

RemoteError == "CloudStackException: the control plane refused the call"

\* one mutating API call, logged with the state the instance is in when it is
\* issued; a call on an instance that no longer exists is answered with an error
Log(s, name, arg) ==
    LET t == [s EXCEPT !.calls = Append(@, [name |-> name, arg |-> arg, at |-> VmState(s)]),
                       !.raced = Append(@, s.unpolled),
                       !.flagged = Append(@, s.changed),
                       !.stale = TRUE,
                       !.ret_stale = FALSE]
    IN IF Failed(s) THEN s
       ELSE IF s.vm.kind # "vm" /\ name # "deployVirtualMachine"
            THEN Fail(t, "CloudStackException: instance does not exist")
       ELSE IF name = s.rejects THEN Fail(t, RemoteError)
       ELSE t

JobHandle == [kind |-> "job"]

\* the job in flight ends: the instance takes the state the job leaves it in
Settle(s) ==
    IF s.pending = NoJob \/ s.vm.kind # "vm" THEN [s EXCEPT !.pending = NoJob]
    ELSE IF s.pending = "Gone" THEN [s EXCEPT !.vm = NoVm, !.pending = NoJob]
    ELSE [s EXCEPT !.vm.state = s.pending,
                   !.vm.hostname = IF s.pending \in {"Stopped", "Destroyed"}
                                   THEN None ELSE @,
                   !.pending = NoJob]

\* an asynchronous call: the instance enters `now`, its job ends in `final`
Async(s, now, final) ==
    IF Failed(s) THEN s ELSE
    [s EXCEPT !.vm.state = now,
              !.pending = IF final = now THEN NoJob ELSE final,
              !.unpolled = TRUE,
              !.ret = JobHandle]

\* args["name"] and args["displayname"] of deploy_instance
deploy_args(p) ==
    [name |-> p.name, displayname |-> get_or_fallback(p, "display_name", "name")]

\* an instance deployed without a name is named by the control plane
CpDeploy(s, so, startvm, hostname, userdataid) ==
    IF Failed(s) THEN s ELSE
    [s EXCEPT !.vm = [kind |-> "vm",
                      name |-> IF deploy_args(s.p).name # None
                               THEN deploy_args(s.p).name ELSE "VM-uuid",
                      displayname |-> deploy_args(s.p).displayname,
                      userdata |-> Base64(s.p.user_data),
                      userdataid |-> userdataid,
                      state |-> IF startvm THEN "Starting" ELSE "Stopped",
                      serviceofferingid |-> so,
                      group |-> s.p.group,
                      keypairs |-> WireKeys(IF s.p.ssh_keys.given THEN s.p.ssh_keys.v ELSE <<>>),
                      keypair |-> None,
                      securitygroup |-> IF s.p.security_groups.given
                                        THEN s.p.security_groups.v ELSE <<>>,
                      hostname |-> IF startvm THEN hostname ELSE None],
              !.vol = MiBPerGiB * (IF s.p.root_disk_size # NoSize
                                   THEN s.p.root_disk_size ELSE DefaultRootGiB),
              !.pending = IF startvm THEN "Running" ELSE "Stopped",
              !.unpolled = TRUE,
              !.ret = JobHandle]

CpStop(s) == Async(s, "Stopping", "Stopped")

CpStart(s, hostname) ==
    IF Failed(s) THEN s ELSE
    Async([s EXCEPT !.vm.hostname = IF hostname # None THEN hostname
                                    ELSE IF @ # None THEN @ ELSE "h1"],
          "Starting", "Running")

CpReboot(s) ==
    IF Failed(s) THEN s ELSE
    Async(s, s.vm.state, "Running")

CpDestroy(s, expunge) ==
    IF expunge THEN Async(s, "Expunging", "Gone") ELSE Async(s, "Destroying", "Destroyed")

CpRestore(s) ==
    IF Failed(s) THEN s ELSE
    Async(s, s.vm.state, IF s.pending # NoJob THEN s.pending ELSE s.vm.state)

CpMigrate(s, hostname) ==
    IF Failed(s) THEN s ELSE
    Async([s EXCEPT !.vm.hostname = hostname], s.vm.state,
          IF s.pending # NoJob THEN s.pending ELSE s.vm.state)

\* synchronous calls answer with the instance itself
CpRecover(s) ==
    IF Failed(s) THEN s ELSE
    LET t == [s EXCEPT !.vm.state = "Stopped", !.vm.hostname = None, !.pending = NoJob]
    IN [t EXCEPT !.ret = t.vm]

CpChangeService(s, so) ==
    IF Failed(s) THEN s ELSE
    LET t == [s EXCEPT !.vm.serviceofferingid = so] IN [t EXCEPT !.ret = t.vm]

CpUpdate(s, group, sgs, userdataid) ==
    IF Failed(s) THEN s ELSE
    LET t == [s EXCEPT !.vm.group = IF group # None THEN group ELSE @,
                       !.vm.displayname = IF s.p.display_name # None
                                          THEN s.p.display_name ELSE @,
                       !.vm.userdata = IF s.p.user_data_name = None /\ s.p.user_data # None
                                       THEN Base64(s.p.user_data) ELSE @,
                       !.vm.userdataid = IF userdataid # None THEN userdataid ELSE @,
                       !.vm.securitygroup = IF sgs.given THEN sgs.v ELSE @]
    IN [t EXCEPT !.ret = t.vm]

CpResetSshKey(s, ks) ==
    IF Failed(s) THEN s ELSE
    Async([s EXCEPT !.vm.keypairs = WireKeys(ks)], s.vm.state,
          IF s.pending # NoJob THEN s.pending ELSE s.vm.state)

\* resizeVolume is a job on the volume: the handle is not the instance's
CpResize(s, gib) ==
    IF Failed(s) THEN s ELSE
    [s EXCEPT !.vol = MiBPerGiB * gib, !.unpolled = TRUE]

---------------------------------------------------------------------------
(* AnsibleCloudStack, the base class: fail_json, poll_job, has_changed *)

Return(s, v) == IF Failed(s) THEN s ELSE [s EXCEPT !.ret = v]

\* truth value of a returned resource: None and {} are false
Truthy(v) == v.kind # "none"

\* poll_job: a job handle is waited for and replaced by the job's resource;
\* anything without a jobid is handed back as it is
poll_job(s, job) ==
    IF Failed(s) THEN s
    ELSE IF job.kind = "job"
         THEN LET t == Settle(s)
              IN [t EXCEPT !.ret = IF t.vm.kind = "vm" THEN t.vm ELSE job,
                           !.unpolled = FALSE]
         ELSE [s EXCEPT !.ret = job]

\* has_changed on one key: a None wish is skipped, a key the resource lacks is
\* a change, strings are compared case-insensitively
has_changed(want, current) ==
    IF want = None THEN FALSE
    ELSE IF current = None THEN TRUE
    ELSE Lower(want) # Lower(current)

\* poll_job on the handler's local `instance`
PollRet(s) == poll_job(s, s.ret)

\* poll_job(async_result, "volume"): the result is dropped
PollVolume(s) == IF Failed(s) THEN s ELSE [s EXCEPT !.unpolled = FALSE]

\* the poll_async switch after an asynchronous call
PollIfAsync(s) == IF s.p.poll_async THEN PollRet(s) ELSE s

MinOf(S) == CHOOSE i \in S : \A j \in S : i <= j

---------------------------------------------------------------------------
(* Resource locator *)

get_service_offering_id(p) ==
    LET hits == {i \in 1..Len(ServiceOfferings) :
                    p.service_offering \in {ServiceOfferings[i].name, ServiceOfferings[i].id}}
    IN IF p.service_offering = None
       THEN [ok |-> TRUE, id |-> ServiceOfferings[1].id]
       ELSE IF hits # {}
            THEN [ok |-> TRUE, id |-> ServiceOfferings[MinOf(hits)].id]
            ELSE [ok |-> FALSE, id |-> None]

get_host_id(p) ==
    LET hits == {i \in 1..Len(Hosts) : p.host \in {Hosts[i].name, Hosts[i].id}}
    IN IF p.host = None
       THEN [ok |-> TRUE, id |-> None, name |-> None]
       ELSE IF hits # {}
            THEN [ok |-> TRUE, id |-> Hosts[MinOf(hits)].id, name |-> Hosts[MinOf(hits)].name]
            ELSE [ok |-> FALSE, id |-> None, name |-> None]

\* template first, then iso; only a template is filtered by root_disk_size
get_template_or_iso(p) ==
    LET rootdisksize == p.root_disk_size
        hits == {i \in 1..Len(Templates) :
                    /\ p.template \in {Templates[i].displaytext, Templates[i].name,
                                        Templates[i].id}
                    /\ ~(/\ rootdisksize # NoSize
                          /\ rootdisksize # 0
                          /\ Templates[i].size > rootdisksize * MiBPerGiB)}
        isohits == {i \in 1..Len(Isos) :
                       p.iso \in {Isos[i].displaytext, Isos[i].name, Isos[i].id}}
    IN IF p.template = None /\ p.iso = None
       THEN [ok |-> TRUE, id |-> None]
       ELSE IF p.template # None
            THEN IF hits # {}
                 THEN [ok |-> TRUE, id |-> Templates[MinOf(hits)].id]
                 ELSE [ok |-> FALSE, id |-> None]
            ELSE IF isohits # {}
                 THEN [ok |-> TRUE, id |-> Isos[MinOf(isohits)].id]
                 ELSE [ok |-> FALSE, id |-> None]

\* the message get_template_or_iso fails with
TemplateNotFound(p) == IF p.template # None THEN "Template not found" ELSE "ISO not found"

\* get_template_or_iso asking the control plane on every call: the variant
\* C25 must tell apart
template_or_iso_requery(s) ==
    IF Failed(s) \/ (s.p.template = None /\ s.p.iso = None) THEN s
    ELSE IF get_template_or_iso(s.p).ok
         THEN [s EXCEPT !.queries = @ + 1,
                        !.memo = [kind |-> "image", id |-> get_template_or_iso(s.p).id]]
         ELSE Fail([s EXCEPT !.queries = @ + 1], TemplateNotFound(s.p))

\* one call of get_template_or_iso: self.template or self.iso answers when it
\* is set, a listing query when it is not, and only a match is remembered
template_or_iso(s) ==
    IF Failed(s) \/ (s.p.template = None /\ s.p.iso = None) THEN s
    ELSE IF Truthy(s.memo) THEN s
    ELSE IF get_template_or_iso(s.p).ok
         THEN [s EXCEPT !.queries = @ + 1,
                        !.memo = [kind |-> "image", id |-> get_template_or_iso(s.p).id]]
         ELSE Fail([s EXCEPT !.queries = @ + 1], TemplateNotFound(s.p))

\* _get_by_key("id", ...) on what the call above returns
ImageId(s) == IF Truthy(s.memo) THEN s.memo.id ELSE None

\* the networks a name matches, by position in the listing
NetworkHits(name) ==
    {n \in 1..Len(Networks) :
        name \in {Networks[n].displaytext, Networks[n].name, Networks[n].id}}

\* the loop collecting the ids last name first: the variant C26 must tell apart
RECURSIVE network_ids_reversed(_)
network_ids_reversed(names) ==
    IF names = <<>> THEN <<>>
    ELSE IF NetworkHits(Head(names)) # {}
         THEN network_ids_reversed(Tail(names))
              \o <<Networks[MinOf(NetworkHits(Head(names)))].id>>
         ELSE network_ids_reversed(Tail(names))

\* the loop of get_network_ids: the id of the first match of each name, a name
\* without a match adding nothing
RECURSIVE network_ids(_)
network_ids(names) ==
    IF names = <<>> THEN <<>>
    ELSE IF NetworkHits(Head(names)) # {}
         THEN <<Networks[MinOf(NetworkHits(Head(names)))].id>> \o network_ids(Tail(names))
         ELSE network_ids(Tail(names))

\* get_network_ids: every name must be listed; no names, no ids
get_network_ids(names) ==
    IF ~names.given \/ names.v = <<>> THEN [ok |-> TRUE, ids |-> <<>>]
    ELSE IF Networks = <<>> THEN [ok |-> FALSE, ids |-> <<>>]
    ELSE IF Len(network_ids(names.v)) # Len(names.v)
         THEN [ok |-> FALSE, ids |-> <<>>]
         ELSE [ok |-> TRUE, ids |-> network_ids(names.v)]

\* get_iptonetwork_mappings: the message it fails with, NoErr when it succeeds
get_iptonetwork_mappings(p) ==
    IF ~p.ip_to_networks.given THEN NoErr
    ELSE IF p.ip_to_networks.v # <<>> /\ p.networks.given /\ p.networks.v # <<>>
         THEN "networks and ip_to_networks are mutually exclusive."
    ELSE IF ~get_network_ids(p.ip_to_networks).ok
         THEN "Could not find all networks"
    ELSE NoErr

\* what get_iptonetwork_mappings returns: each mapping with its network's id
iptonetworklist(p) ==
    IF p.ip_to_networks.given /\ get_network_ids(p.ip_to_networks).ok
    THEN [i \in 1..Len(p.ip_to_networks.v) |->
             [networkid |-> get_network_ids(p.ip_to_networks).ids[i],
              network |-> p.ip_to_networks.v[i]]]
    ELSE <<>>

get_user_data_id_by_name(p) ==
    LET hits == {i \in 1..Len(UserData) : p.user_data_name \in {UserData[i].name, UserData[i].id}}
    IN IF p.user_data_name = None
       THEN [ok |-> TRUE, id |-> None]
       ELSE IF hits # {}
            THEN [ok |-> TRUE, id |-> UserData[MinOf(hits)].id]
            ELSE [ok |-> FALSE, id |-> None]

\* get_ssh_keypair(key="fingerprint"): None when the key pair is not listed
get_ssh_keypair(name) ==
    LET hits == {i \in 1..Len(SshKeyPairs) : SshKeyPairs[i].name = name}
    IN IF hits # {} THEN SshKeyPairs[MinOf(hits)].fingerprint ELSE None

\* the keypairs workaround of get_instance: always a list
NormalizeKeypairs(v) ==
    [v EXCEPT !.keypairs =
        IF @.shape = "missing" THEN [shape |-> "list", v |-> <<>>]
        ELSE IF @.shape # "list" THEN [shape |-> "list", v |-> <<@.key>>]
        ELSE @]

\* a use of self.instance: it is a stale read if a call was issued since
ReadCache(s) == IF Failed(s) THEN s ELSE [s EXCEPT !.read_stale = @ \/ s.stale]

get_instance(s, refresh) ==
    IF Failed(s) THEN s
    ELSE IF ~Truthy(s.cache) \/ refresh
         THEN LET instance_name == get_or_fallback(s.p, "name", "display_name")
                  listed == /\ s.vm.kind = "vm"
                            /\ Lower(instance_name) \in {Lower(s.vm.name),
                                                         Lower(s.vm.displayname)}
              IN IF listed
                 THEN [s EXCEPT !.cache = NormalizeKeypairs(s.vm),
                                !.ret = NormalizeKeypairs(s.vm),
                                !.stale = FALSE, !.ret_stale = FALSE]
                 ELSE [ReadCache(s) EXCEPT !.ret = s.cache, !.ret_stale = s.stale]
         ELSE [ReadCache(s) EXCEPT !.ret = s.cache, !.ret_stale = s.stale]

---------------------------------------------------------------------------
(* Change detector *)

\* ssh_keys_changed looking both ways, a wished key the instance lacks being
\* a change too: the variant C32 must tell apart
ssh_keys_changed_both_ways(s) ==
    LET ssh_keys == s.p.ssh_keys
        kp == s.cache.keypairs
        instance_ssh_keys == IF kp.shape = "list" /\ kp.v # <<>> THEN kp.v
                             ELSE IF s.cache.keypair # None THEN <<s.cache.keypair>>
                             ELSE <<"">>
        fps == {get_ssh_keypair(ssh_keys.v[i]) : i \in 1..Len(ssh_keys.v)}
        live == {get_ssh_keypair(instance_ssh_keys[i]) : i \in 1..Len(instance_ssh_keys)}
    IN IF ~ssh_keys.given THEN FALSE
       ELSE ssh_keys.v = <<>> \/ None \in live \/ live # fps

ssh_keys_changed(s) ==
    LET ssh_keys == s.p.ssh_keys
        kp == s.cache.keypairs
        instance_ssh_keys == IF kp.shape = "list" /\ kp.v # <<>> THEN kp.v
                             ELSE IF s.cache.keypair # None THEN <<s.cache.keypair>>
                             ELSE <<"">>
        fps == {get_ssh_keypair(ssh_keys.v[i]) : i \in 1..Len(ssh_keys.v)}
    IN IF ~ssh_keys.given THEN FALSE
       ELSE \E i \in 1..Len(instance_ssh_keys) :
               \/ ssh_keys.v = <<>>
               \/ get_ssh_keypair(instance_ssh_keys[i]) = None
               \/ get_ssh_keypair(instance_ssh_keys[i]) \notin fps

\* a wished key pair that is not listed makes get_ssh_keypair fail
ssh_keys_missing(s) ==
    /\ s.p.ssh_keys.given
    /\ \E i \in 1..Len(s.p.ssh_keys.v) : get_ssh_keypair(s.p.ssh_keys.v[i]) = None

\* security_groups_changed without its second loop, the wished groups the
\* instance lacks: the variant C22 must tell apart
security_groups_changed_live_only(s) ==
    LET wish == s.p.security_groups
        wished == {Lower(wish.v[i]) : i \in 1..Len(wish.v)}
        live == s.cache.securitygroup
    IN IF ~wish.given THEN FALSE
       ELSE \E i \in 1..Len(live) : Lower(live[i]) \notin wished

security_groups_changed(s) ==
    LET wish == s.p.security_groups
        security_groups == [i \in 1..Len(wish.v) |-> Lower(wish.v[i])]
        live == s.cache.securitygroup
        wished == {security_groups[i] : i \in 1..Len(security_groups)}
        names == {Lower(live[i]) : i \in 1..Len(live)}
    IN IF ~wish.given THEN FALSE
       ELSE \/ \E i \in 1..Len(live) : Lower(live[i]) \notin wished
            \/ \E i \in 1..Len(security_groups) : security_groups[i] \notin names

---------------------------------------------------------------------------
(* State machine / reconciler.  Every handler works on the record its       *)
(* get_instance() call leaves: s.ret is the handler's local `instance`.     *)

SetChanged(s) == IF Failed(s) THEN s ELSE [s EXCEPT !.changed = TRUE]
Warn(s, msg) == IF Failed(s) THEN s ELSE [s EXCEPT !.warns = Append(@, msg)]
SetCache(s) ==
    IF Failed(s) THEN s
    ELSE [s EXCEPT !.cache = s.ret, !.stale = s.ret_stale,
                   !.raw = @ \/ (s.ret.kind = "vm" /\ s.ret.keypairs.shape # "list")]

\* stop_found forgetting the starting state: the variant C6 must tell apart
stop_found_running_only(s) ==
    IF Failed(s) \/ ~Truthy(s.ret) THEN s
    ELSE IF Lower(s.ret.state) \in {"stopping", "stopped"} THEN s
    ELSE IF Lower(s.ret.state) \in {"running"}
         THEN IF s.p.check_mode THEN SetChanged(s)
              ELSE PollIfAsync(CpStop(Log(SetChanged(s), "stopVirtualMachine", "")))
         ELSE s

\* stop_found leaving changed alone in check mode: the variant C30 must tell
\* apart
stop_found_dry_unmarked(s) ==
    IF Failed(s) \/ ~Truthy(s.ret) THEN s
    ELSE IF Lower(s.ret.state) \in {"stopping", "stopped"} THEN s
    ELSE IF Lower(s.ret.state) \in {"starting", "running"}
         THEN IF s.p.check_mode THEN s
              ELSE PollIfAsync(CpStop(Log(SetChanged(s), "stopVirtualMachine", "")))
         ELSE s

stop_found(s) ==
    IF Failed(s) \/ ~Truthy(s.ret) THEN s
    ELSE IF Lower(s.ret.state) \in {"stopping", "stopped"} THEN s
    ELSE IF Lower(s.ret.state) \in {"starting", "running"}
         THEN IF s.p.check_mode THEN SetChanged(s)
              ELSE PollIfAsync(CpStop(Log(SetChanged(s), "stopVirtualMachine", "")))
         ELSE s

stop_instance(s) == stop_found(get_instance(s, FALSE))

\* start_found taking stopped for satisfied: the variant C5 must tell apart
start_found_stopping_only(s) ==
    IF Failed(s) \/ ~Truthy(s.ret) THEN s
    ELSE IF Lower(s.ret.state) \in {"starting", "running", "stopped"} THEN s
    ELSE IF Lower(s.ret.state) \in {"stopping"}
         THEN IF s.p.check_mode THEN SetChanged(s)
              ELSE IF ~get_host_id(s.p).ok THEN Fail(SetChanged(s), "Host not found")
              ELSE PollIfAsync(CpStart(Log(SetChanged(s), "startVirtualMachine",
                                           get_host_id(s.p).id),
                                       get_host_id(s.p).name))
         ELSE s

start_found(s) ==
    IF Failed(s) \/ ~Truthy(s.ret) THEN s
    ELSE IF Lower(s.ret.state) \in {"starting", "running"} THEN s
    ELSE IF Lower(s.ret.state) \in {"stopped", "stopping"}
         THEN IF s.p.check_mode THEN SetChanged(s)
              ELSE IF ~get_host_id(s.p).ok THEN Fail(SetChanged(s), "Host not found")
              ELSE PollIfAsync(CpStart(Log(SetChanged(s), "startVirtualMachine",
                                           get_host_id(s.p).id),
                                       get_host_id(s.p).name))
         ELSE s

start_instance(s) == start_found(get_instance(s, FALSE))

\* restart_found rebooting a stopped instance too: the variant C7 must tell apart
restart_found_reboot_stopped(s) ==
    IF Failed(s) \/ ~Truthy(s.ret) THEN s
    ELSE IF Lower(s.ret.state) \in {"running", "starting", "stopped"}
         THEN IF s.p.check_mode THEN SetChanged(s)
              ELSE PollIfAsync(CpReboot(Log(SetChanged(s), "rebootVirtualMachine", "")))
         ELSE IF Lower(s.ret.state) \in {"stopping"} THEN start_instance(s)
         ELSE s

restart_found(s) ==
    IF Failed(s) \/ ~Truthy(s.ret) THEN s
    ELSE IF Lower(s.ret.state) \in {"running", "starting"}
         THEN IF s.p.check_mode THEN SetChanged(s)
              ELSE PollIfAsync(CpReboot(Log(SetChanged(s), "rebootVirtualMachine", "")))
         ELSE IF Lower(s.ret.state) \in {"stopping", "stopped"} THEN start_instance(s)
         ELSE s

restart_instance(s) == restart_found(get_instance(s, FALSE))

\* restore_instance after its get_instance: there is no check_mode test here
restore_call(s, inst) ==
    IF Failed(s) THEN s
    ELSE IF s.p.poll_async
         THEN PollRet(CpRestore(Log(s, "restoreVirtualMachine", ImageId(s))))
         ELSE Return(CpRestore(Log(s, "restoreVirtualMachine", ImageId(s))), inst)

restore_found(s, inst) ==
    IF Failed(s) \/ ~Truthy(inst) THEN s
    ELSE restore_call(template_or_iso(s), inst)

\* restore_changed leaving changed to the call's outcome: the variant C11
\* must tell apart
restore_changed_unmarked(s) == restore_found(s, s.ret)

restore_changed(s) == restore_found(SetChanged(s), s.ret)

restore_instance(s) == restore_changed(get_instance(s, FALSE))

\* recover_instance missing the destroying state: the variant C8 must tell apart
recover_instance_destroyed_only(s) ==
    IF Failed(s) THEN s
    ELSE IF Lower(s.ret.state) \in {"destroyed"}
         THEN IF s.p.check_mode THEN SetChanged(s)
              ELSE CpRecover(Log(SetChanged(s), "recoverVirtualMachine", ""))
         ELSE s

\* recover_instance issuing its call without marking the change: the variant
\* C29 must tell apart
recover_instance_unmarked(s) ==
    IF Failed(s) THEN s
    ELSE IF Lower(s.ret.state) \in {"destroying", "destroyed"}
         THEN IF s.p.check_mode THEN SetChanged(s)
              ELSE CpRecover(Log(s, "recoverVirtualMachine", ""))
         ELSE s

recover_instance(s) ==
    IF Failed(s) THEN s
    ELSE IF Lower(s.ret.state) \in {"destroying", "destroyed"}
         THEN IF s.p.check_mode THEN SetChanged(s)
              ELSE CpRecover(Log(SetChanged(s), "recoverVirtualMachine", ""))
         ELSE s

\* absent_found destroying a destroying instance again: the variant C9 must tell apart
absent_found_redestroy(s, inst) ==
    IF Failed(s) \/ ~Truthy(inst) THEN s
    ELSE IF Lower(inst.state) \notin {"expunging", "destroyed"}
         THEN IF s.p.check_mode THEN SetChanged(s)
              ELSE IF s.p.poll_async
                   THEN PollRet(CpDestroy(Log(SetChanged(s), "destroyVirtualMachine", ""), FALSE))
                   ELSE Return(CpDestroy(Log(SetChanged(s), "destroyVirtualMachine", ""), FALSE),
                               inst)
         ELSE s

absent_found(s, inst) ==
    IF Failed(s) \/ ~Truthy(inst) THEN s
    ELSE IF Lower(inst.state) \notin {"expunging", "destroying", "destroyed"}
         THEN IF s.p.check_mode THEN SetChanged(s)
              ELSE IF s.p.poll_async
                   THEN PollRet(CpDestroy(Log(SetChanged(s), "destroyVirtualMachine", ""), FALSE))
                   ELSE Return(CpDestroy(Log(SetChanged(s), "destroyVirtualMachine", ""), FALSE),
                               inst)
         ELSE s

absent_instance_ret(s) == absent_found(s, s.ret)

absent_instance(s) == absent_instance_ret(get_instance(s, FALSE))

\* the two branches of expunge_instance: `res` is {} unless a call is issued
expunge_call(s) ==
    IF s.p.check_mode THEN Return(SetChanged(s), NoVm)
    ELSE CpDestroy(Log(SetChanged(s), "destroyVirtualMachine", "expunge"), TRUE)

\* expunge_found leaving a destroyed instance alone, as absent_instance does:
\* the variant C10 must tell apart
expunge_found_skip_destroyed(s, inst) ==
    IF Failed(s) \/ ~Truthy(inst) THEN s
    ELSE IF Lower(inst.state) \in {"destroying", "destroyed"}
         THEN Return(PollIfAsync(Return(s, NoVm)), inst)
         ELSE IF Lower(inst.state) \notin {"expunging"}
              THEN Return(PollIfAsync(expunge_call(s)), inst)
              ELSE Return(PollIfAsync(Return(s, NoVm)), inst)

expunge_found(s, inst) ==
    IF Failed(s) \/ ~Truthy(inst) THEN s
    ELSE IF Lower(inst.state) \in {"destroying", "destroyed"}
         THEN Return(PollIfAsync(expunge_call(s)), inst)
         ELSE IF Lower(inst.state) \notin {"expunging"}
              THEN Return(PollIfAsync(expunge_call(s)), inst)
              ELSE Return(PollIfAsync(Return(s, NoVm)), inst)

expunge_instance_ret(s) == expunge_found(s, s.ret)

expunge_instance(s) == expunge_instance_ret(get_instance(s, FALSE))

deploy_call(s, start_vm) ==
    PollIfAsync(CpDeploy(Log(s, "deployVirtualMachine",
                             IF start_vm THEN "startvm" ELSE "nostartvm"),
                         get_service_offering_id(s.p).id, start_vm,
                         IF get_host_id(s.p).name # None THEN get_host_id(s.p).name ELSE "h1",
                         get_user_data_id_by_name(s.p).id))

\* the call of deploy_instance, after its second get_template_or_iso
deploy_checked(s, start_vm) ==
    IF Failed(s) THEN s
    ELSE IF s.p.check_mode THEN Return(s, NoVm)
    ELSE deploy_call(s, start_vm)

\* the resolutions of deploy_instance that follow the template's
deploy_resolved(s, start_vm) ==
    IF Failed(s) THEN s
    ELSE IF ImageId(s) = None THEN Fail(s, "Template or ISO is required.")
    ELSE IF ~get_service_offering_id(s.p).ok THEN Fail(s, "Service offering not found")
    ELSE IF get_iptonetwork_mappings(s.p) # NoErr THEN Fail(s, get_iptonetwork_mappings(s.p))
    ELSE IF ~get_user_data_id_by_name(s.p).ok THEN Fail(s, "User data not found")
    ELSE IF ~get_host_id(s.p).ok THEN Fail(s, "Host not found")
    ELSE deploy_checked(template_or_iso(s), start_vm)

\* the resolutions of deploy_instance in the order of lines 800-838
deploy_changed(s, start_vm) ==
    IF Failed(s) THEN s
    ELSE IF ~get_network_ids(s.p.networks).ok THEN Fail(s, "Could not find all networks")
    ELSE deploy_resolved(template_or_iso(s), start_vm)

deploy_instance(s, start_vm) == deploy_changed(SetChanged(s), start_vm)

\* the five change axes of update_instance
service_offering_changed(s, inst) ==
    /\ s.p.service_offering # None
    /\ has_changed(get_service_offering_id(s.p).id, inst.serviceofferingid)

\* the user data the instance is compared with: "" unless user_data is given
\* and the control plane has some
get_instance_user_data(s) ==
    IF s.p.user_data # None /\ s.vm.kind = "vm" /\ s.vm.userdata # None
    THEN s.vm.userdata ELSE ""

instance_changed(s, inst) ==
    \/ IF s.p.user_data_name # None
       THEN has_changed(get_user_data_id_by_name(s.p).id, inst.userdataid)
       ELSE has_changed(Base64(s.p.user_data), get_instance_user_data(s))
    \/ has_changed(s.p.group, inst.group)
    \/ has_changed(s.p.display_name, inst.displayname)

\* listVolumes(type="ROOT") of the instance: its one ROOT volume
RootVolume(s) ==
    [id |-> <<"ROOT", IF s.vm.kind = "vm" THEN s.vm.name ELSE None>>, size |-> s.vol]

\* the size rounded up to whole GiB: the variant C23 must tell apart
root_disk_gib_rounded_up(s) == (RootVolume(s).size + MiBPerGiB - 1) \div MiBPerGiB

\* volume["size"] >> 30, on a size in MiB
root_disk_gib(s) == RootVolume(s).size \div MiBPerGiB

root_disk_size_changed(s) ==
    /\ s.p.root_disk_size # NoSize
    /\ s.p.root_disk_size # root_disk_gib(s)

args_volume_update(s) == [id |-> RootVolume(s).id, size |-> s.p.root_disk_size]

Axes(s, inst) ==
    [service_offering |-> service_offering_changed(s, inst),
     instance |-> instance_changed(s, inst),
     security_groups |-> security_groups_changed(s),
     ssh_keys |-> ssh_keys_changed(s),
     root_disk_size |-> root_disk_size_changed(s)]

any_changed(ax) ==
    \/ ax.service_offering
    \/ ax.instance
    \/ ax.security_groups
    \/ ax.ssh_keys
    \/ ax.root_disk_size

\* the ordered update cycle, lines 922-960
cycle_stop(s) == SetCache(PollRet(stop_instance(s)))

cycle_offering(s, ax) ==
    IF ax.service_offering
    THEN SetCache(CpChangeService(Log(s, "changeServiceForVirtualMachine", ""),
                                  get_service_offering_id(s.p).id))
    ELSE s

cycle_update(s, ax) ==
    IF ax.instance \/ ax.security_groups
    THEN SetCache(CpUpdate(Log(s, "updateVirtualMachine", ""), s.p.group,
                           IF ax.security_groups THEN s.p.security_groups ELSE Unset,
                           get_user_data_id_by_name(s.p).id))
    ELSE s

cycle_ssh(s, ax) ==
    IF ax.ssh_keys
    THEN SetCache(PollRet(CpResetSshKey(Log(s, "resetSSHKeyForVirtualMachine", ""),
                                        s.p.ssh_keys.v)))
    ELSE s

cycle_resize(s, ax) ==
    IF ax.root_disk_size
    THEN PollVolume(CpResize(Log(s, "resizeVolume", args_volume_update(s)),
                             args_volume_update(s).size))
    ELSE s

\* cycle_start starting again whatever the cycle stopped: the variant C17
\* must tell apart
cycle_start_whatever_stopped(s, instance_state, start_vm) ==
    IF instance_state \in {"running", "starting"} /\ start_vm THEN start_instance(s) ELSE s

\* cycle_start starting the instance again although a step has failed: the
\* variant C20 must tell apart
cycle_start_after_failure(s, instance_state, start_vm) ==
    IF instance_state = "running" /\ start_vm
    THEN IF Failed(s) /\ s.vm.kind = "vm"
         THEN Fail(start_instance([s EXCEPT !.err = NoErr]), s.err)
         ELSE start_instance(s)
    ELSE s

cycle_start(s, instance_state, start_vm) ==
    IF instance_state = "running" /\ start_vm THEN start_instance(s) ELSE s

\* update_cycle resizing the volume before the SSH keys are reset: the
\* variant C15 must tell apart
update_cycle_resize_first(s, ax, instance_state, start_vm) ==
    cycle_start(cycle_ssh(cycle_resize(cycle_update(cycle_offering(cycle_stop(s), ax), ax), ax), ax),
                instance_state, start_vm)

update_cycle(s, ax, instance_state, start_vm) ==
    cycle_start(cycle_resize(cycle_ssh(cycle_update(cycle_offering(cycle_stop(s), ax), ax), ax), ax),
                instance_state, start_vm)

host_changed(s, inst) ==
    /\ Lower(inst.state) \in {"starting", "running"}
    /\ inst.hostname # None
    /\ s.p.host # None
    /\ s.p.host # inst.hostname

migrate_call(s) ==
    IF ~get_host_id(s.p).ok THEN Fail(s, "Host not found")
    ELSE IF s.p.check_mode THEN s
    ELSE PollRet(CpMigrate(Log(s, "migrateVirtualMachine", get_host_id(s.p).id),
                           get_host_id(s.p).name))

\* migrate tied to force as the update cycle is: the variant C18 must tell apart
migrate_forced_only(s) ==
    IF Failed(s) THEN s
    ELSE IF s.ret.kind = "job" THEN Fail(s, "KeyError: 'state'")
    ELSE IF ~host_changed(s, s.ret) \/ ~s.p.force THEN s
    ELSE migrate_call(SetChanged(s))

\* lines 966-985; a job handle has no state to read
migrate(s) ==
    IF Failed(s) THEN s
    ELSE IF s.ret.kind = "job" THEN Fail(s, "KeyError: 'state'")
    ELSE IF ~host_changed(s, s.ret) THEN s
    ELSE migrate_call(SetChanged(s))

WontApply == "Changes won't be applied to running instances."

\* apply_changes without the stopped-or-force test: the variant C3 must tell apart
apply_changes_unguarded(s, ax, instance_state, start_vm) ==
    IF ~any_changed(ax) THEN s
    ELSE IF s.p.check_mode THEN SetChanged(s)
    ELSE update_cycle(SetChanged(s), ax, instance_state, start_vm)

apply_changes(s, ax, instance_state, start_vm) ==
    IF ~any_changed(ax) THEN s
    ELSE IF instance_state = "stopped" \/ s.p.force
         THEN IF s.p.check_mode THEN SetChanged(s)
              ELSE update_cycle(SetChanged(s), ax, instance_state, start_vm)
         ELSE Warn(s, WontApply)

\* ssh_keys_changed and security_groups_changed use self.instance once the
\* wish is known to be given
DetectorsRead(s) ==
    IF s.p.ssh_keys.given \/ s.p.security_groups.given THEN ReadCache(s) ELSE s

update_instance(s, start_vm) ==
    IF Failed(s) THEN s
    ELSE IF s.p.service_offering # None /\ ~get_service_offering_id(s.p).ok
         THEN Fail(s, "Service offering not found")
    ELSE IF ~get_user_data_id_by_name(s.p).ok THEN Fail(s, "User data not found")
    ELSE IF ssh_keys_missing(s) THEN Fail(s, "SSH key not found")
    ELSE migrate(apply_changes(DetectorsRead(s), Axes(s, s.ret), Lower(s.ret.state), start_vm))

\* ensure_tags: tag reconciliation is an external collaborator
ensure_tags(s) == s

present_found(s, start_vm) ==
    IF ~Truthy(s.ret) THEN deploy_instance(s, start_vm)
    ELSE update_instance(recover_instance(s), start_vm)

\* lines 761-766; `settle` is whether the job in flight has ended by the listing
present_refresh(s, settle) ==
    IF Failed(s) \/ ~Truthy(s.ret) THEN s
    ELSE SetCache(ensure_tags(get_instance(IF settle THEN Settle(s) ELSE s, TRUE)))

present_instance(s, start_vm, settle) ==
    present_refresh(present_found(get_instance(s, FALSE), start_vm), settle)

---------------------------------------------------------------------------
(* One invocation of main() *)

Pack ==
    [p |-> params, vm |-> vm, pending |-> pending, vol |-> vol,
     cache |-> self_instance, ret |-> instance, changed |-> changed,
     calls |-> calls, warns |-> warns, err |-> err,
     unpolled |-> unpolled, raced |-> raced,
     stale |-> stale, ret_stale |-> ret_stale, read_stale |-> read_stale,
     rejects |-> rejects, flagged |-> flagged, memo |-> memo, queries |-> queries,
     raw |-> raw]

Store(r) ==
    /\ vm' = r.vm
    /\ pending' = r.pending
    /\ vol' = r.vol
    /\ self_instance' = r.cache
    /\ instance' = r.ret
    /\ changed' = r.changed
    /\ calls' = r.calls
    /\ warns' = r.warns
    /\ err' = r.err
    /\ unpolled' = r.unpolled
    /\ raced' = r.raced
    /\ stale' = r.stale
    /\ ret_stale' = r.ret_stale
    /\ read_stale' = r.read_stale
    /\ flagged' = r.flagged
    /\ memo' = r.memo
    /\ queries' = r.queries
    /\ raw' = r.raw
    /\ UNCHANGED <<params, vm0, rejects>>

Unpack(r, next) ==
    /\ Store(r)
    /\ pc' = IF Failed(r) THEN "failed" ELSE next
    /\ UNCHANGED out

\* the most optional attributes one task sets
MaxWishes == 2

Wishes(p) ==
    (IF p.service_offering # None THEN 1 ELSE 0)
    + (IF p.group # None THEN 1 ELSE 0)
    + (IF p.ssh_keys.given THEN 1 ELSE 0)
    + (IF p.security_groups.given THEN 1 ELSE 0)
    + (IF p.root_disk_size # NoSize THEN 1 ELSE 0)
    + (IF p.host # None THEN 1 ELSE 0)
    + (IF p.template = None THEN 1 ELSE 0)

Params ==
    [state : States, check_mode : BOOLEAN, poll_async : BOOLEAN, force : BOOLEAN,
     service_offering : {None, "small", "large"},
     group : {None, "Web", "db"},
     ssh_keys : {Unset, Given(<<>>), Given(<<"k1">>)},
     security_groups : {Unset, Given(<<"Web">>), Given(<<"db">>)},
     root_disk_size : {NoSize, 20, 25},
     host : {None, "h1", "h2"},
     template : {None, "tmpl"},
     iso : {None},
     networks : {Unset},
     ip_to_networks : {Unset},
     user_data : {None},
     user_data_name : {None},
     name : {"vm1"},
     display_name : {None}]

LiveVm(st, keys) ==
    [kind |-> "vm", name |-> "vm1", displayname |-> "web01",
     state |-> st, serviceofferingid |-> "so1", group |-> "web",
     userdata |-> None, userdataid |-> None,
     keypairs |-> keys, keypair |-> None, securitygroup |-> <<"web">>,
     hostname |-> IF st \in {"Starting", "Running", "Stopping"} THEN "h1" ELSE None]

LiveKeys == {[shape |-> "missing"], [shape |-> "list", v |-> <<"k1">>]}

Init ==
    /\ params \in {p \in Params : Wishes(p) <= MaxWishes}
    /\ vm \in {NoVm} \cup {LiveVm(st, k) : st \in WireStates, k \in LiveKeys}
    /\ vm0 = vm
    /\ pending = IF vm.kind = "vm" THEN InFlight(vm.state) ELSE NoJob
    /\ vol = DefaultRootGiB * MiBPerGiB
    /\ self_instance = NoVm
    /\ instance = NoVm
    /\ changed = FALSE
    /\ calls = <<>>
    /\ warns = <<>>
    /\ unpolled = FALSE
    /\ raced = <<>>
    /\ stale = FALSE
    /\ ret_stale = FALSE
    /\ read_stale = FALSE
    /\ flagged = <<>>
    /\ memo = NoVm
    /\ queries = 0
    /\ raw = FALSE
    /\ out = None
    /\ rejects = None
    /\ err = NoErr
    /\ pc = "main"

AbsentInstance ==
    /\ pc = "main"
    /\ params.state \in {"absent", "destroyed"}
    /\ Unpack(absent_instance(Pack), "final")

ExpungeInstance ==
    /\ pc = "main"
    /\ params.state \in {"expunged"}
    /\ Unpack(expunge_instance(Pack), "final")

PresentInstance ==
    /\ pc = "main"
    /\ params.state \in {"restored", "present", "deployed", "stopped", "started", "restarted"}
    /\ \E settle \in BOOLEAN :
          Unpack(present_instance(Pack, params.state # "stopped", settle),
                 IF params.state \in {"present", "deployed"} THEN "final" ELSE "second")

RestoreInstance ==
    /\ pc = "second"
    /\ params.state \in {"restored"}
    /\ Unpack(restore_instance(Pack), "final")

StopInstance ==
    /\ pc = "second"
    /\ params.state \in {"stopped"}
    /\ Unpack(stop_instance(Pack), "final")

StartInstance ==
    /\ pc = "second"
    /\ params.state \in {"started"}
    /\ Unpack(start_instance(Pack), "final")

RestartInstance ==
    /\ pc = "second"
    /\ params.state \in {"restarted"}
    /\ Unpack(restart_instance(Pack), "final")

\* "Instance named '%s' in error state." % name, on the names of the model
ErrorStateMsg(name) ==
    CASE name = "vm1" -> "Instance named 'vm1' in error state."
      [] name = "web01" -> "Instance named 'web01' in error state."
      [] name = None -> "Instance named 'None' in error state."

\* main, lines 1211-1215: the error check, then get_result and exit_json
Finish ==
    /\ pc = "final"
    /\ IF Truthy(instance) /\ instance.kind = "vm" /\ Lower(instance.state) = "error"
       THEN Unpack(Fail(Pack, ErrorStateMsg(params.name)), "failed")
       ELSE Unpack(get_instance(Pack, TRUE), "done")

\* the control plane finishes the job in flight on its own; a job that ends
\* before main() looks is another initial state
JobEnds ==
    /\ pc # "main"
    /\ pending # NoJob
    /\ Unpack(Settle(Pack), pc)

Next ==
    \/ AbsentInstance
    \/ ExpungeInstance
    \/ PresentInstance
    \/ RestoreInstance
    \/ StopInstance
    \/ StartInstance
    \/ RestartInstance
    \/ Finish
    \/ JobEnds

Spec == Init /\ [][Next]_vars

\* The same invocation with the instance named by name, by display_name or by
\* both (required_one_of), every other optional attribute left out.
NamedParams ==
    {[p EXCEPT !.name = n[1], !.display_name = n[2]] :
        p \in {q \in Params : Wishes(q) <= 1},
        n \in {<<"vm1", None>>, <<"vm1", "web01">>, <<None, "web01">>}}

InitNamed ==
    /\ params \in NamedParams
    /\ vm \in {NoVm} \cup {LiveVm(st, k) : st \in WireStates, k \in LiveKeys}
    /\ vm0 = vm
    /\ pending = IF vm.kind = "vm" THEN InFlight(vm.state) ELSE NoJob
    /\ vol = DefaultRootGiB * MiBPerGiB
    /\ self_instance = NoVm
    /\ instance = NoVm
    /\ changed = FALSE
    /\ calls = <<>>
    /\ warns = <<>>
    /\ unpolled = FALSE
    /\ raced = <<>>
    /\ stale = FALSE
    /\ ret_stale = FALSE
    /\ read_stale = FALSE
    /\ flagged = <<>>
    /\ memo = NoVm
    /\ queries = 0
    /\ raw = FALSE
    /\ out = None
    /\ rejects = None
    /\ err = NoErr
    /\ pc = "main"

SpecNamed == InitNamed /\ [][Next]_vars

\* The same invocation over the inputs that can fail: names no listing has,
\* and the pairs documented as mutually exclusive.  A task is the default
\* task with at most two of these wishes.
DefaultParams(state, check_mode, poll_async, force) ==
    [state |-> state, check_mode |-> check_mode, poll_async |-> poll_async,
     force |-> force, service_offering |-> None, group |-> None, ssh_keys |-> Unset,
     security_groups |-> Unset, root_disk_size |-> NoSize, host |-> None,
     template |-> "tmpl", iso |-> None, networks |-> Unset, ip_to_networks |-> Unset,
     user_data |-> None, user_data_name |-> None, name |-> "vm1", display_name |-> None]

WishKinds == 0..18

Wish(p, k) ==
    CASE k = 0 -> p
      [] k = 1 -> [p EXCEPT !.service_offering = "large"]
      [] k = 2 -> [p EXCEPT !.service_offering = "nope"]
      [] k = 3 -> [p EXCEPT !.host = "h2"]
      [] k = 4 -> [p EXCEPT !.host = "h9"]
      [] k = 5 -> [p EXCEPT !.template = "nope"]
      [] k = 6 -> [p EXCEPT !.template = None]
      [] k = 7 -> [p EXCEPT !.iso = "iso1"]
      [] k = 8 -> [p EXCEPT !.iso = "iso9"]
      [] k = 9 -> [p EXCEPT !.ssh_keys = Given(<<"k1">>)]
      [] k = 10 -> [p EXCEPT !.ssh_keys = Given(<<"k9">>)]
      [] k = 11 -> [p EXCEPT !.networks = Given(<<"net1">>)]
      [] k = 12 -> [p EXCEPT !.networks = Given(<<"net9">>)]
      [] k = 13 -> [p EXCEPT !.ip_to_networks = Given(<<"net2">>)]
      [] k = 14 -> [p EXCEPT !.user_data = "ud"]
      [] k = 15 -> [p EXCEPT !.user_data_name = "udn1"]
      [] k = 16 -> [p EXCEPT !.user_data_name = "udn9"]
      [] k = 17 -> [p EXCEPT !.root_disk_size = 25]
      [] k = 18 -> [p EXCEPT !.group = "db"]

InputParams ==
    {Wish(Wish(DefaultParams(st, cm, pa, f), i), j) :
        st \in States, cm \in BOOLEAN, pa \in BOOLEAN, f \in BOOLEAN,
        i \in WishKinds, j \in WishKinds}

\* AnsibleModule(mutually_exclusive=...): the message construction fails with
module_init(p) ==
    IF p.template # None /\ p.iso # None
    THEN "parameters are mutually exclusive: template|iso"
    ELSE IF p.user_data # None /\ p.user_data_name # None
    THEN "parameters are mutually exclusive: user_data|user_data_name"
    ELSE NoErr

InitInputs ==
    /\ params \in InputParams
    /\ vm \in {NoVm} \cup {LiveVm(st, [shape |-> "list", v |-> <<"k1">>]) : st \in WireStates}
    /\ vm0 = vm
    /\ pending = IF vm.kind = "vm" THEN InFlight(vm.state) ELSE NoJob
    /\ vol = DefaultRootGiB * MiBPerGiB
    /\ self_instance = NoVm
    /\ instance = NoVm
    /\ changed = FALSE
    /\ calls = <<>>
    /\ warns = <<>>
    /\ unpolled = FALSE
    /\ raced = <<>>
    /\ stale = FALSE
    /\ ret_stale = FALSE
    /\ read_stale = FALSE
    /\ flagged = <<>>
    /\ memo = NoVm
    /\ queries = 0
    /\ raw = FALSE
    /\ out = None
    /\ rejects = None
    /\ err = module_init(params)
    /\ pc = IF module_init(params) = NoErr THEN "main" ELSE "failed"

SpecInputs == InitInputs /\ [][Next]_vars

\* The same invocation, forced and not in check mode, against a control plane
\* that answers one kind of call with an error.
RejectedCalls ==
    {"stopVirtualMachine", "changeServiceForVirtualMachine", "updateVirtualMachine",
     "resetSSHKeyForVirtualMachine", "resizeVolume", "startVirtualMachine"}

InitReject ==
    /\ params \in {p \in Params : p.force /\ ~p.check_mode /\ Wishes(p) <= 2}
    /\ rejects \in RejectedCalls
    /\ vm \in {NoVm} \cup {LiveVm(st, k) : st \in WireStates, k \in LiveKeys}
    /\ vm0 = vm
    /\ pending = IF vm.kind = "vm" THEN InFlight(vm.state) ELSE NoJob
    /\ vol = DefaultRootGiB * MiBPerGiB
    /\ self_instance = NoVm
    /\ instance = NoVm
    /\ changed = FALSE
    /\ calls = <<>>
    /\ warns = <<>>
    /\ unpolled = FALSE
    /\ raced = <<>>
    /\ stale = FALSE
    /\ ret_stale = FALSE
    /\ read_stale = FALSE
    /\ flagged = <<>>
    /\ memo = NoVm
    /\ queries = 0
    /\ raw = FALSE
    /\ out = None
    /\ err = NoErr
    /\ pc = "main"

SpecReject == InitReject /\ [][Next]_vars

---------------------------------------------------------------------------
(* Vocabulary of the properties *)

Real == ~params.check_mode
Exists0 == vm0.kind = "vm"
State0 == IF Exists0 THEN Lower(vm0.state) ELSE None
Vol0 == DefaultRootGiB * MiBPerGiB
Target(T) == params.state \in T
PresentTargets == {"present", "deployed", "started", "stopped", "restarted", "restored"}

Elems(q) == {q[i] : i \in 1..Len(q)}
Lowered(q) == {Lower(q[i]) : i \in 1..Len(q)}
Count(name) == Cardinality({i \in 1..Len(calls) : calls[i].name = name})
Call(name, arg, at) == [name |-> name, arg |-> arg, at |-> at]
UpdateCalls == {"changeServiceForVirtualMachine", "updateVirtualMachine",
                "resetSSHKeyForVirtualMachine", "resizeVolume"}

Keys0 == IF vm0.keypairs.shape = "missing" THEN {} ELSE Elems(vm0.keypairs.v)

\* the five attributes the task wishes for are what the live instance has
AxesMet ==
    /\ \/ params.service_offering = None
       \/ \E i \in 1..Len(ServiceOfferings) :
             /\ ServiceOfferings[i].name = params.service_offering
             /\ ServiceOfferings[i].id = vm0.serviceofferingid
    /\ params.group = None \/ Lower(params.group) = Lower(vm0.group)
    /\ ~params.ssh_keys.given \/ Elems(params.ssh_keys.v) = Keys0
    /\ \/ ~params.security_groups.given
       \/ Lowered(params.security_groups.v) = Lowered(vm0.securitygroup)
    /\ params.root_disk_size = NoSize \/ params.root_disk_size * MiBPerGiB = Vol0

WishesMet == AxesMet /\ (params.host = None \/ params.host = vm0.hostname)

InTargetState ==
    \/ Target({"started"}) /\ State0 = "running"
    \/ Target({"stopped"}) /\ State0 = "stopped"
    \/ Target({"present", "deployed"}) /\ Exists0 /\ State0 \notin {"destroying", "destroyed"}

---------------------------------------------------------------------------
(* C1: idempotence.  For target started, stopped or present, on a live     *)
(* instance that is already in the state the target implies and has every  *)
(* wished attribute, the invocation issues no mutating call and leaves     *)
(* changed false.                                                          *)
C1_Idempotent ==
    (InTargetState /\ WishesMet) => (calls = <<>> /\ ~changed)

(* C2: in check mode no mutating control-plane call is issued, whatever    *)
(* the target and the live state.                                          *)
C2_DryRunIssuesNoCall ==
    params.check_mode => calls = <<>>

(* C3: target present on a running instance, force off, no host hint, the  *)
(* service offering the only difference: no mutating call, exactly the     *)
(* "won't be applied" warning, changed false.  And in every run a call of  *)
(* the update cycle is issued only with force set or on a stopped instance.*)
OnlyOfferingDiffers ==
    /\ params.service_offering # None
    /\ \E i \in 1..Len(ServiceOfferings) :
          /\ ServiceOfferings[i].name = params.service_offering
          /\ ServiceOfferings[i].id # vm0.serviceofferingid
    /\ params.group = None \/ Lower(params.group) = Lower(vm0.group)
    /\ ~params.ssh_keys.given \/ Elems(params.ssh_keys.v) = Keys0
    /\ \/ ~params.security_groups.given
       \/ Lowered(params.security_groups.v) = Lowered(vm0.securitygroup)
    /\ params.root_disk_size = NoSize \/ params.root_disk_size * MiBPerGiB = Vol0

C3_Case ==
    /\ pc \in {"final", "done"}
    /\ Target({"present", "deployed"})
    /\ State0 = "running"
    /\ ~params.force
    /\ params.host = None
    /\ OnlyOfferingDiffers

C3_NoForceNoApply ==
    /\ C3_Case => (calls = <<>> /\ warns = <<WontApply>> /\ ~changed)
    /\ \A i \in 1..Len(calls) :
          calls[i].name \in UpdateCalls => (params.force \/ Lower(calls[i].at) = "stopped")

C3_Witness == C3_Case /\ warns = <<WontApply>>

(* C4: a real run with poll_async, target started or stopped, that ends    *)
(* in success leaves the instance in the target state (or on its way to it *)
(* by the job in flight), from every live state but error.                 *)
C4_Wanted == IF Target({"started"}) THEN "running" ELSE "stopped"

C4_TargetStateReached ==
    (/\ pc = "done"
     /\ Real
     /\ params.poll_async
     /\ Target({"started", "stopped"})
     /\ State0 # "error")
    => /\ vm.kind = "vm"
       /\ Lower(vm.state) = C4_Wanted \/ Lower(pending) = C4_Wanted

(* C5: target started on a stopped instance that has every wished          *)
(* attribute ends with exactly one startVirtualMachine call, the last      *)
(* call, pinned to the resolved host, and changed true (in check mode: no  *)
(* call, changed true); start_instance on an instance it sees starting or  *)
(* running issues no call, leaves changed alone and returns that instance. *)
C5_Case ==
    /\ pc \in {"final", "done"}
    /\ Target({"started"})
    /\ State0 = "stopped"
    /\ AxesMet

C5_OneStart ==
    C5_Case =>
       /\ changed
       /\ IF Real
          THEN /\ Count("startVirtualMachine") = 1
               /\ calls[Len(calls)] =
                     Call("startVirtualMachine", get_host_id(params).id, "Stopped")
          ELSE calls = <<>>

C5_StartStep ==
    (/\ pc = "second"
     /\ pc' # "second"
     /\ Target({"started"})
     /\ Truthy(self_instance)
     /\ Lower(self_instance.state) \in {"starting", "running"})
    => (calls' = calls /\ changed' = changed /\ instance' = self_instance)

C5_StartedOnStopped == []C5_OneStart /\ [][C5_StartStep]_vars

C5_Witness ==
    /\ C5_Case
    /\ pc = "done"
    /\ calls = <<Call("startVirtualMachine", "hid2", "Stopped")>>

(* C6: stop_instance issues stopVirtualMachine and sets changed exactly    *)
(* when the instance it sees is starting or running (in check mode it sets *)
(* changed and withholds the call); otherwise no call and changed is left  *)
(* alone.  With target stopped the present step never starts: no start     *)
(* call, and a deploy carries startvm false.                               *)
VmStateNow == IF vm.kind = "vm" THEN vm.state ELSE None

C6_StopStep ==
    (pc = "second" /\ pc' # "second" /\ Target({"stopped"}))
    => IF Truthy(self_instance) /\ Lower(self_instance.state) \in {"starting", "running"}
       THEN /\ changed'
            /\ calls' = IF Real
                        THEN Append(calls, Call("stopVirtualMachine", "", VmStateNow))
                        ELSE calls
       ELSE calls' = calls /\ changed' = changed

C6_NeverStarted ==
    Target({"stopped"}) =>
       /\ Count("startVirtualMachine") = 0
       /\ \A i \in 1..Len(calls) :
             calls[i].name = "deployVirtualMachine" => calls[i].arg = "nostartvm"

C6_Stop == []C6_NeverStarted /\ [][C6_StopStep]_vars

C6_Witness ==
    /\ pc = "final"
    /\ Target({"stopped"})
    /\ changed
    /\ calls = <<Call("stopVirtualMachine", "", "Running")>>

(* C7: restart_instance reboots (and does not start) an instance it sees   *)
(* running or starting, starts (and does not reboot) one it sees stopping  *)
(* or stopped, and in any other state issues no call and leaves changed    *)
(* alone; check mode sets changed and withholds the call.                  *)
C7_RestartStep ==
    (pc = "second" /\ pc' # "second" /\ Target({"restarted"}))
    => IF Truthy(self_instance) /\ Lower(self_instance.state) \in {"running", "starting"}
       THEN /\ changed'
            /\ calls' = IF Real
                        THEN Append(calls, Call("rebootVirtualMachine", "", VmStateNow))
                        ELSE calls
       ELSE IF Truthy(self_instance) /\ Lower(self_instance.state) \in {"stopping", "stopped"}
       THEN /\ changed'
            /\ calls' = IF Real
                        THEN Append(calls, Call("startVirtualMachine",
                                                get_host_id(params).id, VmStateNow))
                        ELSE calls
       ELSE calls' = calls /\ changed' = changed

C7_Restart == [][C7_RestartStep]_vars

C7_Witness ==
    /\ pc = "final"
    /\ Target({"restarted"})
    /\ State0 = "stopped"
    /\ calls = <<Call("startVirtualMachine", None, "Stopped")>>

(* C8: target present (and every target that runs the present step).  No   *)
(* live instance: a run that does not fail issues exactly one deploy, the  *)
(* first call, with the caller's start flag (none in check mode), and no   *)
(* recover, update-cycle or migrate call.  A live instance: no deploy;     *)
(* recover is issued exactly when the instance is destroying or destroyed  *)
(* (changed is set, the call withheld in check mode), and it is the first  *)
(* call, so the update step's calls follow it.                             *)
C8_StartFlag == IF Target({"stopped"}) THEN "nostartvm" ELSE "startvm"

C8_Deployed ==
    /\ Count("deployVirtualMachine") = IF Real THEN 1 ELSE 0
    /\ Real => calls[1] = Call("deployVirtualMachine", C8_StartFlag, None)
    /\ Count("recoverVirtualMachine") = 0
    /\ Count("migrateVirtualMachine") = 0
    /\ \A i \in 1..Len(calls) : calls[i].name \notin UpdateCalls

C8_Recovered ==
    /\ Count("deployVirtualMachine") = 0
    /\ IF State0 \in {"destroying", "destroyed"}
       THEN /\ changed
            /\ Count("recoverVirtualMachine") = IF Real THEN 1 ELSE 0
            /\ Real => calls[1] = Call("recoverVirtualMachine", "", vm0.state)
       ELSE Count("recoverVirtualMachine") = 0

C8_Present ==
    (Target(PresentTargets) /\ pc # "main") =>
       IF Exists0 THEN C8_Recovered ELSE (pc # "failed" => C8_Deployed)

C8_Witness ==
    /\ pc = "done"
    /\ Target({"present"})
    /\ State0 = "destroyed"
    /\ Len(calls) = 2
    /\ calls[1].name = "recoverVirtualMachine"
    /\ calls[2].name = "changeServiceForVirtualMachine"

(* C9: target absent or destroyed.  A live instance not expunging,         *)
(* destroying or destroyed: changed is set and the one call is a destroy   *)
(* without expunge (withheld in check mode); otherwise no call and changed *)
(* stays false.                                                            *)
C9_Absent ==
    (Target({"absent", "destroyed"}) /\ pc # "main") =>
       IF Exists0 /\ State0 \notin {"expunging", "destroying", "destroyed"}
       THEN /\ changed
            /\ calls = IF Real THEN <<Call("destroyVirtualMachine", "", vm0.state)>> ELSE <<>>
       ELSE calls = <<>> /\ ~changed

C9_Witness ==
    /\ pc = "done"
    /\ Target({"absent"})
    /\ changed
    /\ calls = <<Call("destroyVirtualMachine", "", "Running")>>

(* C10: target expunged.  A live instance in any state but expunging,      *)
(* destroying and destroyed included: changed is set and the one call is a *)
(* destroy with expunge, no recover before it (withheld in check mode); an *)
(* instance already expunging, or none: no call and changed stays false.   *)
C10_Expunged ==
    (Target({"expunged"}) /\ pc # "main") =>
       IF Exists0 /\ State0 # "expunging"
       THEN /\ changed
            /\ calls = IF Real
                       THEN <<Call("destroyVirtualMachine", "expunge", vm0.state)>>
                       ELSE <<>>
       ELSE calls = <<>> /\ ~changed

C10_Witness ==
    /\ pc = "done"
    /\ Target({"expunged"})
    /\ changed
    /\ calls = <<Call("destroyVirtualMachine", "expunge", "Destroyed")>>

(* C11: target restored.  After the present step the restore step sets     *)
(* changed whatever the live state was, and whenever it has an instance    *)
(* (one found or one just deployed) its one restoreVirtualMachine call is  *)
(* the last call, issued on the instance that exists and carrying the      *)
(* template id resolved from the task (None when no template is named).    *)
(* Only a check-mode run that found no instance has nothing to restore.    *)
C11_Case == Target({"restored"}) /\ pc \in {"final", "done"}

C11_Restored ==
    C11_Case =>
       /\ changed
       /\ IF Exists0 \/ Real
          THEN /\ Count("restoreVirtualMachine") = 1
               /\ calls[Len(calls)].name = "restoreVirtualMachine"
               /\ calls[Len(calls)].arg = get_template_or_iso(params).id
               /\ calls[Len(calls)].at # None
          ELSE calls = <<>>

C11_Witness ==
    /\ C11_Case
    /\ pc = "done"
    /\ State0 = "running"
    /\ changed
    /\ calls = <<Call("restoreVirtualMachine", "tid1", "Running")>>

(* C12: whenever the run reaches the end of reconciliation with the live   *)
(* instance in state error, the invocation fails and succeeds never, and   *)
(* the failure message names the instance: by the requested name, or by    *)
(* the display name when only the display name was supplied.               *)
C12_LiveError == vm.kind = "vm" /\ Lower(vm.state) = "error"

C12_FinishStep ==
    (pc = "final" /\ pc' # "final" /\ C12_LiveError)
    => /\ pc' = "failed"
       /\ err' = ErrorStateMsg(get_or_fallback(params, "name", "display_name"))

C12_FailsOnError == [][C12_FinishStep]_vars

(* C13: a task that sets both members of a conflicting pair (template and  *)
(* iso, networks and ip_to_networks, user_data and user_data_name) and     *)
(* whose target runs the present step fails with a mutually-exclusive      *)
(* error and issues no mutating call, whether the instance exists or not.  *)
C13_Pairs ==
    {k \in {"template|iso", "user_data|user_data_name", "networks|ip_to_networks"} :
        \/ k = "template|iso" /\ params.template # None /\ params.iso # None
        \/ k = "user_data|user_data_name"
              /\ params.user_data # None /\ params.user_data_name # None
        \/ k = "networks|ip_to_networks"
              /\ params.networks.given /\ params.networks.v # <<>>
              /\ params.ip_to_networks.given /\ params.ip_to_networks.v # <<>>}

C13_ExclusiveErrors ==
    {"parameters are mutually exclusive: template|iso",
     "parameters are mutually exclusive: user_data|user_data_name",
     "networks and ip_to_networks are mutually exclusive."}

C13_MutuallyExclusive ==
    (C13_Pairs # {} /\ Target(PresentTargets) /\ pc # "main")
    => (pc = "failed" /\ err \in C13_ExclusiveErrors /\ calls = <<>>)

(* C14: no run contains a mutating call followed by a failure to resolve a *)
(* referenced name: when the invocation fails with a not-found error, no   *)
(* mutating control-plane call has been issued.                            *)
C14_NotFound ==
    {"Template not found", "ISO not found", "Service offering not found",
     "Host not found", "Could not find all networks", "SSH key not found",
     "User data not found"}

C14_ResolveBeforeMutate ==
    (pc = "failed" /\ err \in C14_NotFound) => calls = <<>>

(* C15: the calls of an applied update cycle come in the order stop,       *)
(* change service offering, update instance, reset SSH key, resize root    *)
(* volume, start, each kind at most once; a call is there only if its axis *)
(* is true (stop only for a starting or running instance, start only for   *)
(* one that was running, with the start flag), and in a cycle that runs    *)
(* through it is there if the axis is true; no call is issued while a job  *)
(* of an earlier call is unpolled, with poll_async on or off.              *)
CycleNames == <<"stopVirtualMachine", "changeServiceForVirtualMachine",
                "updateVirtualMachine", "resetSSHKeyForVirtualMachine",
                "resizeVolume", "startVirtualMachine">>

Rank(name) == CHOOSE i \in 1..Len(CycleNames) : CycleNames[i] = name

Has(name) == \E i \in 1..Len(calls) : calls[i].name = name

\* the log holds the present step's calls only, made on an instance found
PresentStepOnly ==
    /\ Exists0
    /\ \/ Target({"present", "deployed"}) /\ pc # "main"
       \/ Target({"restored", "stopped", "started", "restarted"}) /\ pc = "second"

\* the instance update_instance is given: recovered first when destroyed
StateBefore ==
    IF State0 \in {"destroying", "destroyed"} /\ Real THEN "stopped" ELSE State0

Axes0 ==
    Axes([p |-> params, vm |-> vm0, vol |-> Vol0, cache |-> NormalizeKeypairs(vm0)],
         NormalizeKeypairs(vm0))

CycleApplied == Real /\ any_changed(Axes0) /\ (StateBefore = "stopped" \/ params.force)

C15_Ordered ==
    \A i, j \in {k \in 1..Len(calls) : calls[k].name \in Elems(CycleNames)} :
       i < j => Rank(calls[i].name) < Rank(calls[j].name)

C15_OnlyIfAxis ==
    /\ Has("stopVirtualMachine") => StateBefore \in {"starting", "running"}
    /\ Has("changeServiceForVirtualMachine") => Axes0.service_offering
    /\ Has("updateVirtualMachine") => (Axes0.instance \/ Axes0.security_groups)
    /\ Has("resetSSHKeyForVirtualMachine") => Axes0.ssh_keys
    /\ Has("resizeVolume") => Axes0.root_disk_size
    /\ Has("startVirtualMachine") => (StateBefore = "running" /\ ~Target({"stopped"}))

C15_IfAxis ==
    /\ StateBefore \in {"starting", "running"} => Has("stopVirtualMachine")
    /\ Axes0.service_offering => Has("changeServiceForVirtualMachine")
    /\ (Axes0.instance \/ Axes0.security_groups) => Has("updateVirtualMachine")
    /\ Axes0.ssh_keys => Has("resetSSHKeyForVirtualMachine")
    /\ Axes0.root_disk_size => Has("resizeVolume")
    /\ (StateBefore = "running" /\ ~Target({"stopped"})) => Has("startVirtualMachine")

C15_CycleOrder ==
    PresentStepOnly =>
       /\ C15_Ordered
       /\ C15_OnlyIfAxis
       /\ (CycleApplied /\ pc # "failed") => C15_IfAxis
       /\ \A i \in 1..Len(raced) : ~raced[i]

C15_Witness ==
    /\ PresentStepOnly
    /\ ~params.poll_async
    /\ Len(calls) = 4
    /\ calls[1].name = "stopVirtualMachine"
    /\ calls[2].name = "changeServiceForVirtualMachine"
    /\ calls[3].name = "resizeVolume"
    /\ calls[4].name = "startVirtualMachine"

(* C16: the change-service-offering, update-instance, reset-SSH-key and    *)
(* resize-root-volume calls are issued only while the control plane's      *)
(* instance is stopped, from every initial live state, force on or off.    *)
C16_OnlyWhileStopped ==
    \A i \in 1..Len(calls) :
       calls[i].name \in UpdateCalls => Lower(calls[i].at) = "stopped"

(* C17: an applied update cycle ends with a start call exactly when the    *)
(* instance was seen running before the cycle and the caller's start flag  *)
(* is set; the cycle never starts an instance that was stopped before it,  *)
(* nor one it found starting and stopped itself.                           *)
C17_LastIsStart ==
    calls # <<>> /\ calls[Len(calls)].name = "startVirtualMachine"

C17_StartIffWasRunning ==
    PresentStepOnly =>
       /\ (CycleApplied /\ get_host_id(params).ok) =>
             (C17_LastIsStart <=> (StateBefore = "running" /\ ~Target({"stopped"})))
       /\ StateBefore # "running" => ~Has("startVirtualMachine")
       /\ Count("startVirtualMachine") <= 1

C17_Witness ==
    /\ PresentStepOnly
    /\ pc = "done"
    /\ State0 = "running"
    /\ Len(calls) = 3
    /\ calls[1].name = "stopVirtualMachine"
    /\ calls[3] = Call("startVirtualMachine", None, "Stopped")

(* C18: host migration is decided apart from the five axes and from force. *)
(* After the update step a migrate call is issued, and changed set, exactly*)
(* when the instance the step ends with is starting or running, has a      *)
(* host, a host hint is given and the hint differs from that host (check   *)
(* mode sets changed and withholds the call).  A running instance with     *)
(* force off and changes left unapplied is still migrated; a stopped       *)
(* instance is never migrated, nor one the update step has recovered,      *)
(* stopped, or started again on the hinted host.                           *)
C18_Hint == params.host # None /\ vm0.hostname # None /\ params.host # vm0.hostname

\* the update step leaves the instance as it found it: nothing to apply, or
\* changes it may not apply
C18_Untouched ==
    /\ PresentStepOnly
    /\ State0 \notin {"destroying", "destroyed"}
    /\ ~any_changed(Axes0) \/ (State0 # "stopped" /\ ~params.force)

C18_Migrate ==
    /\ C18_Untouched =>
          IF State0 \in {"starting", "running"} /\ C18_Hint
          THEN /\ changed
               /\ calls = IF Real
                          THEN <<Call("migrateVirtualMachine", get_host_id(params).id, vm0.state)>>
                          ELSE <<>>
          ELSE calls = <<>> /\ ~changed
    /\ (PresentStepOnly /\ ~C18_Untouched) => ~Has("migrateVirtualMachine")
    /\ \A i \in 1..Len(calls) :
          calls[i].name = "migrateVirtualMachine" =>
             /\ Lower(calls[i].at) \in {"starting", "running"}
             /\ calls[i].arg = get_host_id(params).id
             /\ params.host # None

C18_Witness ==
    /\ C18_Untouched
    /\ pc = "done"
    /\ ~params.force
    /\ any_changed(Axes0)
    /\ warns = <<WontApply>>
    /\ calls = <<Call("migrateVirtualMachine", "hid2", "Running")>>

(* C19: the cached snapshot is never read stale: between a mutating call   *)
(* and the next use of self.instance (get_instance without refresh or with *)
(* nothing listed, the SSH-key and security-group detectors, the stop,     *)
(* start and restart handlers) the snapshot has been replaced by a fresh   *)
(* listing or by the resource that call returned.                          *)
C19_NeverReadStale == ~read_stale

(* C20: when the control plane refuses a call of the update cycle the      *)
(* invocation fails with that error and the refused call is the last call  *)
(* it issues: no compensating call and no start follows, and an instance   *)
(* the cycle has stopped is left stopped.                                  *)
C20_Refused == pc = "failed" /\ err = RemoteError

C20_NoCompensation ==
    C20_Refused =>
       /\ calls[Len(calls)].name = rejects
       /\ Count(rejects) = 1
       /\ (rejects \in UpdateCalls /\ Has("stopVirtualMachine")) =>
             /\ ~Has("startVirtualMachine")
             /\ vm.kind = "vm" /\ Lower(vm.state) = "stopped"

C20_Witness ==
    /\ C20_Refused
    /\ rejects = "resizeVolume"
    /\ State0 = "running"
    /\ Len(calls) = 3
    /\ calls[1].name = "stopVirtualMachine"
    /\ calls[2].name = "changeServiceForVirtualMachine"
    /\ calls[3].name = "resizeVolume"
    /\ vm.state = "Stopped"
    /\ vol = Vol0

---------------------------------------------------------------------------
(* The methods of the change detector and of the resource locator, one at  *)
(* a time: Init draws a method and its inputs, the method's action applies *)
(* it to them and leaves what it returns in out.                           *)

UnitTask == DefaultParams("present", FALSE, TRUE, FALSE)

Methods == {"ssh_keys_changed", "security_groups_changed", "root_disk_size_changed",
            "get_template_or_iso", "get_network_ids", "get_iptonetwork_mappings",
            "deploy_args"}

\* ssh_keys wishes: none, empty, listed keys (k1 and k1b have one fingerprint),
\* and a key no listing has
KeyWishes ==
    {Unset, Given(<<>>), Given(<<"k1">>), Given(<<"k1b">>), Given(<<"k2">>),
     Given(<<"k1", "k2">>), Given(<<"k9">>)}

\* keypairs on the wire: no field, a list, a scalar; "gone" was deleted upstream
WireKeypairs ==
    {[shape |-> "missing"], [shape |-> "list", v |-> <<>>],
     [shape |-> "list", v |-> <<"k1">>], [shape |-> "list", v |-> <<"k2">>],
     [shape |-> "list", v |-> <<"k1", "k2">>], [shape |-> "list", v |-> <<"gone">>],
     [shape |-> "list", v |-> <<"k1", "gone">>], [shape |-> "scalar", key |-> "k1"]}

GroupWishes ==
    {Unset, Given(<<>>), Given(<<"Web">>), Given(<<"db">>), Given(<<"web", "DB">>),
     Given(<<"db", "web">>), Given(<<"web", "web">>)}

WireGroups == {<<>>, <<"web">>, <<"Web", "db">>, <<"DB", "web">>, <<"DB">>, <<"web", "web">>}

RootSizeWishes == {NoSize, 0, 20, 21, 25}

\* ROOT volume sizes in MiB: whole GiB and one MiB either side of one
VolumeSizes == {1023, 20480, 21503, 21504, 25600}

ImageSizeWishes == {NoSize, 0, 5, 10, 20, 25, 30}

TemplateWishes == {"tmpl", "Base image", "tid1", "big", "Big image", "tid3", "nope"}

IsoWishes == {"iso1", "Installer", "iid2", "iso9"}

NetworkNames == {"net1", "net2", "Net two", "nid3", "net9"}

NetworkWishes ==
    {Unset, Given(<<>>)} \cup {Given(<<a>>) : a \in NetworkNames}
    \cup {Given(<<a, b>>) : a \in NetworkNames, b \in NetworkNames}

UnitParams(method) ==
    CASE method = "ssh_keys_changed" -> {[UnitTask EXCEPT !.ssh_keys = k] : k \in KeyWishes}
      [] method = "security_groups_changed" ->
            {[UnitTask EXCEPT !.security_groups = g] : g \in GroupWishes}
      [] method = "root_disk_size_changed" ->
            {[UnitTask EXCEPT !.root_disk_size = r] : r \in RootSizeWishes}
      [] method = "get_template_or_iso" ->
            {[UnitTask EXCEPT !.template = t, !.root_disk_size = r] :
                t \in TemplateWishes \cup {None}, r \in ImageSizeWishes}
            \cup {[UnitTask EXCEPT !.template = None, !.iso = i, !.root_disk_size = r] :
                     i \in IsoWishes, r \in ImageSizeWishes}
      [] method = "get_network_ids" -> {[UnitTask EXCEPT !.networks = n] : n \in NetworkWishes}
      [] method = "get_iptonetwork_mappings" ->
            {[UnitTask EXCEPT !.ip_to_networks = n, !.networks = m] :
                n \in NetworkWishes, m \in {Unset, Given(<<"net1">>)}}
      [] method = "deploy_args" ->
            {[UnitTask EXCEPT !.name = n[1], !.display_name = n[2]] :
                n \in {<<"vm1", None>>, <<"vm1", "web01">>, <<None, "web01">>}}

UnitVms(method) ==
    CASE method = "ssh_keys_changed" ->
            {[LiveVm("Running", k) EXCEPT !.keypair = kp] :
                k \in WireKeypairs, kp \in {None, "k2"}}
      [] method = "security_groups_changed" ->
            {[LiveVm("Running", [shape |-> "list", v |-> <<"k1">>])
                EXCEPT !.securitygroup = g] : g \in WireGroups}
      [] method \in {"deploy_args", "get_template_or_iso"} ->
            {NoVm, LiveVm("Running", [shape |-> "list", v |-> <<"k1">>])}
      [] OTHER -> {LiveVm("Running", [shape |-> "list", v |-> <<"k1">>])}

UnitVols(method) ==
    IF method = "root_disk_size_changed" THEN VolumeSizes ELSE {DefaultRootGiB * MiBPerGiB}

InitUnit ==
    /\ pc \in Methods
    /\ params \in UnitParams(pc)
    /\ vm \in UnitVms(pc)
    /\ vol \in UnitVols(pc)
    /\ vm0 = vm
    /\ pending = NoJob
    /\ self_instance = NoVm
    /\ instance = NoVm
    /\ changed = FALSE
    /\ calls = <<>>
    /\ warns = <<>>
    /\ unpolled = FALSE
    /\ raced = <<>>
    /\ stale = FALSE
    /\ ret_stale = FALSE
    /\ read_stale = FALSE
    /\ flagged = <<>>
    /\ memo = NoVm
    /\ queries = 0
    /\ raw = FALSE
    /\ rejects = None
    /\ err = NoErr
    /\ out = None

\* the method returns v, or the invocation has failed
Returns(r, v) ==
    /\ Store(r)
    /\ pc' = IF Failed(r) THEN "failed" ELSE "returned"
    /\ out' = [method |-> pc, value |-> v]

\* the SSH keys in update_instance, lines 876 and 941-951: the keys are
\* compared, and reset when they differ
SshKeysChanged ==
    /\ pc = "ssh_keys_changed"
    /\ LET s == get_instance(Pack, FALSE)
       IN IF ssh_keys_missing(s)
          THEN Returns(Fail(s, "SSH key not found"), FALSE)
          ELSE Returns(cycle_ssh(DetectorsRead(s), Axes(s, s.ret)), ssh_keys_changed(s))

SecurityGroupsChanged ==
    /\ pc = "security_groups_changed"
    /\ LET s == get_instance(Pack, FALSE)
       IN Returns(DetectorsRead(s), security_groups_changed(s))

\* the root disk size in update_instance, lines 880-905 and 953-956: the
\* volume is listed and compared, and resized when the sizes differ
RootDiskSizeChanged ==
    /\ pc = "root_disk_size_changed"
    /\ LET s == get_instance(Pack, FALSE)
       IN Returns(cycle_resize(s, Axes(s, s.ret)),
                  [changed |-> root_disk_size_changed(s),
                   volume |-> RootVolume(s),
                   args |-> args_volume_update(s)])

GetTemplateOrIso ==
    /\ pc = "get_template_or_iso"
    /\ Returns(template_or_iso(Pack), ImageId(template_or_iso(Pack)))

GetNetworkIds ==
    /\ pc = "get_network_ids"
    /\ Returns(IF get_network_ids(params.networks).ok THEN Pack
               ELSE Fail(Pack, "Could not find all networks"),
               get_network_ids(params.networks).ids)

GetIpToNetworkMappings ==
    /\ pc = "get_iptonetwork_mappings"
    /\ Returns(IF get_iptonetwork_mappings(params) = NoErr THEN Pack
               ELSE Fail(Pack, get_iptonetwork_mappings(params)),
               iptonetworklist(params))

DeployArgs ==
    /\ pc = "deploy_args"
    /\ Returns(Pack, deploy_args(params))

NextUnit ==
    \/ SshKeysChanged
    \/ SecurityGroupsChanged
    \/ RootDiskSizeChanged
    \/ GetTemplateOrIso
    \/ GetNetworkIds
    \/ GetIpToNetworkMappings
    \/ DeployArgs

SpecUnit == InitUnit /\ [][NextUnit]_vars

Applied(method) == pc = "returned" /\ out.method = method

---------------------------------------------------------------------------
\* the key pairs of the live instance: its keypairs, else its keypair
LiveKeyNames ==
    LET kp == vm0.keypairs
        listed == IF kp.shape = "missing" THEN <<>>
                  ELSE IF kp.shape = "list" THEN kp.v ELSE <<kp.key>>
    IN IF listed # <<>> THEN Elems(listed)
       ELSE IF vm0.keypair # None THEN {vm0.keypair} ELSE {}

WishedFingerprints == {get_ssh_keypair(k) : k \in Elems(params.ssh_keys.v)}

(* C21: with ssh_keys not given ssh_keys_changed is false; with ssh_keys    *)
(* given it is true exactly when (a) no key is wished for while the live   *)
(* instance has one, or (b) a live key has no fingerprint, or (c) a live   *)
(* key's fingerprint is not among the wished keys' fingerprints.           *)
C21_SshKeysChanged ==
    Applied("ssh_keys_changed") =>
        (out.value <=> /\ params.ssh_keys.given
                       /\ \/ params.ssh_keys.v = <<>> /\ LiveKeyNames # {}
                          \/ \E k \in LiveKeyNames : get_ssh_keypair(k) = None
                          \/ \E k \in LiveKeyNames : get_ssh_keypair(k) \notin WishedFingerprints)

\* the same on the live instances that have a key
C21_WithLiveKey ==
    (Applied("ssh_keys_changed") /\ LiveKeyNames # {}) =>
        (out.value <=> /\ params.ssh_keys.given
                       /\ \/ params.ssh_keys.v = <<>>
                          \/ \E k \in LiveKeyNames : get_ssh_keypair(k) = None
                          \/ \E k \in LiveKeyNames : get_ssh_keypair(k) \notin WishedFingerprints)

(* C22: security_groups_changed is false when security_groups is not given; *)
(* when it is given it is true exactly when the wished names and the live  *)
(* names, both lowercased, are not the same set, whatever the order and the *)
(* letter case of either list.                                             *)
C22_SecurityGroupsChanged ==
    Applied("security_groups_changed") =>
        (out.value <=> /\ params.security_groups.given
                       /\ Lowered(params.security_groups.v) # Lowered(vm0.securitygroup))

\* the same two groups in another order and another letter case: no change
C22_Witness ==
    /\ Applied("security_groups_changed")
    /\ params.security_groups = Given(<<"web", "DB">>)
    /\ vm0.securitygroup = <<"DB", "web">>
    /\ ~out.value

\* the whole GiB in a size in MiB
GiBOf(mib) == CHOOSE g \in 0..(mib + 1) : g * MiBPerGiB <= mib /\ mib < (g + 1) * MiBPerGiB

(* C23: the root disk size is looked at only when root_disk_size is given;  *)
(* the ROOT volume's size is taken in whole GiB, rounded down, and          *)
(* root_disk_size_changed is true exactly when that differs from the wished *)
(* GiB; a resize that is applied carries the ROOT volume's id and the       *)
(* wished size in GiB.  20 GiB with 20 wished is no change, with 25 wished  *)
(* it is one.                                                              *)
C23_RootDiskSize ==
    Applied("root_disk_size_changed") =>
       LET was == out.value.volume
           wish == params.root_disk_size
       IN /\ out.value.changed <=> (wish # NoSize /\ wish # GiBOf(was.size))
          /\ (was.size = 20 * MiBPerGiB /\ wish = 20) => ~out.value.changed
          /\ (was.size = 20 * MiBPerGiB /\ wish = 25) => out.value.changed
          /\ IF out.value.changed
             THEN /\ Len(calls) = 1
                  /\ calls[1].name = "resizeVolume"
                  /\ calls[1].arg = [id |-> was.id, size |-> wish]
                  /\ vol = wish * MiBPerGiB
             ELSE calls = <<>> /\ vol = was.size

\* a volume one MiB short of 21 GiB is a 20 GiB volume: 20 wished is no
\* change, and 21 wished is a resize of that volume to 21
C23_Witness ==
    /\ Applied("root_disk_size_changed")
    /\ out.value.volume.size = 21503
    /\ params.root_disk_size = 21
    /\ calls # <<>>
    /\ calls[1].arg = [id |-> <<"ROOT", "vm1">>, size |-> 21]

Tried(method) == pc \in {"returned", "failed"} /\ out.method = method

\* the listing a boot source is looked up in, and the name it is looked up by
Candidates == IF params.template # None THEN Templates ELSE Isos
Wanted == IF params.template # None THEN params.template ELSE params.iso

\* the candidates of that name that fit the root disk size, by position
Fitting ==
    {i \in 1..Len(Candidates) :
        /\ Wanted \in {Candidates[i].displaytext, Candidates[i].name, Candidates[i].id}
        /\ params.root_disk_size \notin {NoSize, 0} =>
              Candidates[i].size <= params.root_disk_size * MiBPerGiB}

(* C24: get_template_or_iso returns the first listed candidate whose       *)
(* display text, name or id is the wished one and, when root_disk_size is  *)
(* given, whose size is at most that many GiB; larger candidates are       *)
(* skipped, templates and ISOs alike, and with no such candidate the       *)
(* resolution fails with not-found.                                        *)
C24_FirstFitting ==
    (Tried("get_template_or_iso") /\ Wanted # None) =>
        IF Fitting # {}
        THEN pc = "returned" /\ out.value = Candidates[MinOf(Fitting)].id
        ELSE pc = "failed" /\ err = TemplateNotFound(params)

\* the same for templates only
C24_Templates ==
    (Tried("get_template_or_iso") /\ params.template # None) =>
        IF Fitting # {}
        THEN pc = "returned" /\ out.value = Candidates[MinOf(Fitting)].id
        ELSE pc = "failed" /\ err = TemplateNotFound(params)

(* C25: within one invocation the template or ISO is asked of the control  *)
(* plane at most once; once it is resolved every later resolution hands    *)
(* back the remembered object, the one the listing gave, and the calls     *)
(* that carry it carry that object's id.                                   *)
C25_ResolvedOnce ==
    /\ queries <= 1
    /\ Truthy(memo) => /\ queries = 1
                       /\ memo.id = get_template_or_iso(params).id
    /\ \A i \in 1..Len(calls) :
          calls[i].name = "restoreVirtualMachine" =>
             calls[i].arg = IF Truthy(memo) THEN memo.id ELSE None
    /\ Has("deployVirtualMachine") => Truthy(memo)

\* target restored with no instance: deploy_instance resolves the template
\* twice and restore_instance once more, on one listing query
C25_Witness ==
    /\ pc = "done"
    /\ Target({"restored"})
    /\ ~Exists0
    /\ Has("deployVirtualMachine")
    /\ Has("restoreVirtualMachine")
    /\ queries = 1

\* whether the n-th listed network is the first one `name` matches
FirstMatch(name, n) ==
    /\ name \in {Networks[n].displaytext, Networks[n].name, Networks[n].id}
    /\ \A m \in 1..(n - 1) :
          name \notin {Networks[m].displaytext, Networks[m].name, Networks[m].id}

AllListed(names) == \A i \in 1..Len(names) : \E n \in 1..Len(Networks) : FirstMatch(names[i], n)

(* C26: get_network_ids resolves every wished name or fails with           *)
(* not-found; the ids it returns are as many as the names and in their     *)
(* order, the i-th being the id of the first listed network whose display  *)
(* text, name or id is the i-th name, and get_iptonetwork_mappings pairs    *)
(* each mapping with the id of its own network.                            *)
C26_NetworkIds ==
    /\ (Tried("get_network_ids") /\ params.networks.given /\ params.networks.v # <<>>) =>
          IF AllListed(params.networks.v)
          THEN /\ pc = "returned"
               /\ Len(out.value) = Len(params.networks.v)
               /\ \A i \in 1..Len(out.value) :
                     \E n \in 1..Len(Networks) :
                        FirstMatch(params.networks.v[i], n) /\ out.value[i] = Networks[n].id
          ELSE pc = "failed" /\ err = "Could not find all networks"
    /\ (Tried("get_iptonetwork_mappings") /\ params.ip_to_networks.given
        /\ ~params.networks.given) =>
          IF AllListed(params.ip_to_networks.v)
          THEN /\ pc = "returned"
               /\ Len(out.value) = Len(params.ip_to_networks.v)
               /\ \A i \in 1..Len(out.value) :
                     /\ out.value[i].network = params.ip_to_networks.v[i]
                     /\ \E n \in 1..Len(Networks) :
                           /\ FirstMatch(out.value[i].network, n)
                           /\ out.value[i].networkid = Networks[n].id
          ELSE pc = "failed" /\ err = "Could not find all networks"

\* two mappings, the first named by a display text two networks share
C26_Witness ==
    /\ Applied("get_iptonetwork_mappings")
    /\ params.ip_to_networks = Given(<<"Net two", "net1">>)
    /\ out.value = <<[networkid |-> "nid2", network |-> "Net two"],
                     [networkid |-> "nid1", network |-> "net1"]>>

(* C27: whenever self.instance is set, after the first listing, after a    *)
(* refresh and after each assignment of the update cycle, its keypairs is  *)
(* a list, whatever the wire carried.                                      *)
C27_KeypairsAlwaysList ==
    /\ ~raw
    /\ self_instance.kind = "vm" => self_instance.keypairs.shape = "list"

\* the same at the ends of main()'s handlers only
C27_BetweenHandlers ==
    self_instance.kind = "vm" => self_instance.keypairs.shape = "list"

(* C28: in the arguments of the deploy call name and display name fall     *)
(* back to each other: with display_name alone the name is the display     *)
(* name, with name alone the display name is the name.                     *)
C28_NamesFallBack ==
    Applied("deploy_args") =>
        /\ params.name = None => out.value.name = params.display_name
        /\ params.display_name = None => out.value.displayname = params.name

\* the display name's half
C28_DisplayNameFallsBack ==
    (Applied("deploy_args") /\ params.display_name = None) =>
        out.value.displayname = params.name

\* changed at each call, and changed against the calls at exit_json
C29_AtEnd ==
    /\ \A i \in 1..Len(flagged) : flagged[i]
    /\ (pc = "done" /\ Real /\ ~Target({"restored"})) => (changed <=> calls # <<>>)
    /\ (pc = "done" /\ Target({"restored"})) => changed

(* C29: no mutating call is issued while changed is false, changed never   *)
(* goes back from true to false, and a run that is not a dry run ends with *)
(* changed true exactly when it has issued a mutating call, but for target *)
(* restored, which always ends with changed true.                          *)
C29_ChangedCoversCalls == [](C29_AtEnd) /\ [][changed => changed']_vars

\* a real run to target started that ends changed after three calls, each
\* issued with changed already set
C29_Witness ==
    /\ pc = "done"
    /\ Real
    /\ Target({"started"})
    /\ Len(calls) = 3
    /\ changed
    /\ flagged = <<TRUE, TRUE, TRUE>>

---------------------------------------------------------------------------
(* main() as one function of the record an invocation starts from: the     *)
(* handlers of the target in the order of main(), lines 1186-1209.  settle *)
(* and ends say whether the job in flight has ended by present_instance's  *)
(* refresh and by the second handler.                                      *)

Start(p, v) ==
    [p |-> p, vm |-> v, pending |-> IF v.kind = "vm" THEN InFlight(v.state) ELSE NoJob,
     vol |-> DefaultRootGiB * MiBPerGiB, cache |-> NoVm, ret |-> NoVm, changed |-> FALSE,
     calls |-> <<>>, warns |-> <<>>, err |-> NoErr, unpolled |-> FALSE, raced |-> <<>>,
     stale |-> FALSE, ret_stale |-> FALSE, read_stale |-> FALSE, rejects |-> None,
     flagged |-> <<>>, memo |-> NoVm, queries |-> 0, raw |-> FALSE]

Between(s, ends) == IF ends /\ ~Failed(s) THEN Settle(s) ELSE s

main_run(s, settle, ends) ==
    CASE s.p.state \in {"absent", "destroyed"} -> absent_instance(s)
      [] s.p.state = "expunged" -> expunge_instance(s)
      [] s.p.state \in {"present", "deployed"} -> present_instance(s, TRUE, settle)
      [] s.p.state = "restored" ->
            restore_instance(Between(present_instance(s, TRUE, settle), ends))
      [] s.p.state = "stopped" ->
            stop_instance(Between(present_instance(s, FALSE, settle), ends))
      [] s.p.state = "started" ->
            start_instance(Between(present_instance(s, TRUE, settle), ends))
      [] s.p.state = "restarted" ->
            restart_instance(Between(present_instance(s, TRUE, settle), ends))

\* the dry run of the task at hand on the instance the invocation found
DryRun(settle, ends) ==
    main_run(Start([params EXCEPT !.check_mode = TRUE], vm0), settle, ends)

(* C30: the dry run predicts the real run.  For the same task and the same *)
(* live instance, every call succeeding, the changed flag a dry run        *)
(* reports is the changed flag the real run reports.                       *)
C30_DryRunPredicts ==
    (pc = "done" /\ Real) =>
        \A settle \in BOOLEAN, ends \in BOOLEAN :
           ~Failed(DryRun(settle, ends)) => DryRun(settle, ends).changed = changed

\* a destroyed instance and a wished service offering: the real run recovers
\* the instance and changes the offering, the dry run stops at the recover it
\* does not make, and both report changed
C30_Witness ==
    /\ pc = "done"
    /\ Real
    /\ Target({"present"})
    /\ State0 = "destroyed"
    /\ params.service_offering = "large"
    /\ Len(calls) = 2
    /\ changed
    /\ ~Failed(DryRun(FALSE, FALSE))
    /\ DryRun(FALSE, FALSE).changed
    /\ DryRun(FALSE, FALSE).calls = <<>>

\* an update cycle on an instance found running or stopped has been applied
\* and the start that ends it issued
C31_Case ==
    /\ Target(PresentTargets)
    /\ State0 \in {"running", "stopped"}
    /\ \E i \in 1..Len(calls) : calls[i].name \in UpdateCalls

(* C31: with poll_async on or off, an update cycle applied to an existing  *)
(* instance ends with an instance resource: the record whose state the     *)
(* host-migration test and the final error check read carries a state and  *)
(* is never a job handle that was not waited for.                          *)
C31_NoJobHandleRead ==
    C31_Case => /\ err # "KeyError: 'state'"
                /\ (pc = "final" /\ Target({"present", "deployed"})) => instance.kind = "vm"

\* the same with poll_async on
C31_Polled ==
    (C31_Case /\ params.poll_async) =>
        /\ err # "KeyError: 'state'"
        /\ (pc = "final" /\ Target({"present", "deployed"})) => instance.kind = "vm"

\* every key of the live instance has a fingerprint that is a wished one
LiveKeysWished ==
    \A k \in LiveKeyNames :
       get_ssh_keypair(k) # None /\ get_ssh_keypair(k) \in WishedFingerprints

====
